---- MODULE Spec2Model ----
(***************************************************************************)
(* Semantic Answer Similarity metric (simple_llms_eval/sas.py).            *)
(*                                                                         *)
(* SemanticAnswerSimilarity._compute is modelled statement by statement:   *)
(* the call frame's locals are the variables, and every call to an         *)
(* external collaborator (AutoConfig.from_pretrained, torch.cuda,          *)
(* CrossEncoder, CrossEncoder.predict) is a step whose answer the          *)
(* environment chooses.  Strings that the code inspects (architecture      *)
(* names) are sequences of chunks; scores are integers in score units and  *)
(* the average is an exact fraction, NaN for the mean of nothing.          *)
(***************************************************************************)
EXTENDS Integers, Sequences, FiniteSets, TLC

VARIABLES pc, predictions, references, model_name, return_average, batch_size,
          model_config, is_cross_encoder, device, model, pairs, scores,
          result, error, printed, events, prev

vars == <<pc, predictions, references, model_name, return_average, batch_size,
          model_config, is_cross_encoder, device, model, pairs, scores,
          result, error, printed, events, prev>>

(* ------------------------------ bounds --------------------------------- *)
MaxLen == 2
MaxArch == 2
MaxBatch == 2

(* ------------------------------ inputs --------------------------------- *)
Texts == {"a", "b"}

ModelNames == {"cross-encoder/stsb-roberta-large", "bert-base-uncased"}

Marker == <<"ForSequenceClassification">>

ArchNames == { <<"Roberta">> \o Marker,
               <<"Bert", "ForMaskedLM">>,
               Marker \o <<"Wrapper">> }

SeqsUpTo(S, n) == UNION { [1..k -> S] : k \in 0..n }

TextLists == SeqsUpTo(Texts, MaxLen)

BatchSizes == 1..MaxBatch

(* model_config.architectures: None, or a list of architecture names *)
NoneValue == [kind |-> "None"]

ListValue(items) == [kind |-> "list", items |-> items]

ArchitectureValues == {NoneValue} \cup { ListValue(l) : l \in SeqsUpTo(ArchNames, MaxArch) }

Unbound == [kind |-> "unbound"]

Config(architectures) == [kind |-> "config", architectures |-> architectures]

NoCall == [kind |-> "nocall"]

(* --------------------------- pure functions ---------------------------- *)
Min(a, b) == IF a <= b THEN a ELSE b

Max(a, b) == IF a >= b THEN a ELSE b

(* str.endswith *)
EndsWith(s, suffix) ==
    /\ Len(s) >= Len(suffix)
    /\ SubSeq(s, Len(s) - Len(suffix) + 1, Len(s)) = suffix

StartsWith(s, prefix) ==
    /\ Len(s) >= Len(prefix)
    /\ SubSeq(s, 1, Len(prefix)) = prefix

(* the predicate under any() at line 87 *)
MatchesMarkerMutant(name) == StartsWith(name, Marker)

MatchesMarker(name) == EndsWith(name, Marker)

(* any(... for architectures in model_config.architectures) *)
AnyMatchMutant(items) == \A i \in 1..Len(items) : MatchesMarker(items[i])

AnyMatch(items) == \E i \in 1..Len(items) : MatchesMarker(items[i])

(* Python truthiness of model_config.architectures *)
Truthy(architectures) ==
    /\ architectures.kind = "list"
    /\ Len(architectures.items) > 0

(* lines 86-87: is_cross_encoder is bound only under the if *)
CheckArchitecture(architectures) ==
    IF Truthy(architectures)
    THEN (IF AnyMatch(architectures.items) THEN "True" ELSE "False")
    ELSE "unbound"

(* line 93 *)
SelectedDevice(cuda_available) == IF cuda_available THEN "cuda" ELSE "cpu"

(* line 94 *)
CrossEncoder(name, dev) == [kind |-> "CrossEncoder", name |-> name, device |-> dev]

(* itertools.zip_longest, padding with None *)
ZipLongest(ps, rs) ==
    [i \in 1..Max(Len(ps), Len(rs)) |->
        << IF i <= Len(ps) THEN ps[i] ELSE "None",
           IF i <= Len(rs) THEN rs[i] ELSE "None" >>]

ZipSwapped(ps, rs) == [i \in 1..Min(Len(ps), Len(rs)) |-> <<rs[i], ps[i]>>]

(* lines 95-98: zip stops at the shorter list *)
Zip(ps, rs) == [i \in 1..Min(Len(ps), Len(rs)) |-> <<ps[i], rs[i]>>]

TextCode(t) == CASE t = "a" -> 1 [] t = "b" -> 2 [] OTHER -> 0

NameCode(name) == IF name = "bert-base-uncased" THEN 1 ELSE 0

(* the score the loaded model gives one pair, in score units: a fixed      *)
(* function of the weights (the model name) and the ordered pair           *)
ModelScore(name, pair) == NameCode(name) + 3 * TextCode(pair[1]) + TextCode(pair[2])

ScoreBatch(name, batch) == [i \in 1..Len(batch) |-> ModelScore(name, batch[i])]

RECURSIVE PredictDropLast(_, _, _)
PredictDropLast(engine, ps, b) ==
    IF Len(ps) < b THEN <<>>
    ELSE ScoreBatch(engine.name, SubSeq(ps, 1, b))
            \o PredictDropLast(engine, SubSeq(ps, b + 1, Len(ps)), b)

(* model.predict(pairs, batch_size=batch_size).tolist(): the pairs are     *)
(* scored batch by batch and the batches' scores concatenated              *)
RECURSIVE Predict(_, _, _)
Predict(engine, ps, b) ==
    IF Len(ps) = 0 THEN <<>>
    ELSE LET k == Min(b, Len(ps))
         IN ScoreBatch(engine.name, SubSeq(ps, 1, k))
                \o Predict(engine, SubSeq(ps, k + 1, Len(ps)), b)

RECURSIVE SumSeq(_)
SumSeq(s) == IF Len(s) = 0 THEN 0 ELSE s[1] + SumSeq(Tail(s))

RECURSIVE GCD(_, _)
GCD(a, b) == IF b = 0 THEN a ELSE GCD(b, a % b)

NaN == [num |-> 0, den |-> 0]

Fraction(n, d) == LET g == GCD(n, d) IN
    IF g = 0 THEN [num |-> 0, den |-> 1] ELSE [num |-> n \div g, den |-> d \div g]

MeanFloor(s) == IF Len(s) = 0 THEN NaN ELSE Fraction(SumSeq(s) \div Len(s), 1)

MeanSentinel(s) == IF Len(s) = 0 THEN Fraction(1, 1) ELSE Fraction(SumSeq(s), Len(s))

(* float(np.mean(scores)): sum over count, nan for an empty list *)
Mean(s) == IF Len(s) = 0 THEN NaN ELSE Fraction(SumSeq(s), Len(s))

(* lines 102-106 *)
ReturnValue(s, with_average) ==
    IF with_average
    THEN [kind |-> "tuple", scores |-> s, average |-> Mean(s)]
    ELSE [kind |-> "list", scores |-> s]

Wrapped(exception) == "RuntimeError"

(* _compute has no try/except: what a collaborator raises is what the      *)
(* caller gets                                                             *)
Propagated(exception) == exception

(* the calls out of _compute, as logged in events *)
CudaProbe(cuda_available) ==
    IF cuda_available THEN "torch.cuda.is_available:True"
    ELSE "torch.cuda.is_available:False"

(* ------------------------------- state --------------------------------- *)
Init ==
    /\ pc = "idle"
    /\ predictions = <<>>
    /\ references = <<>>
    /\ model_name = "cross-encoder/stsb-roberta-large"
    /\ return_average = FALSE
    /\ batch_size = 1
    /\ model_config = Unbound
    /\ is_cross_encoder = "unbound"
    /\ device = "unbound"
    /\ model = Unbound
    /\ pairs = <<>>
    /\ scores = <<>>
    /\ result = Unbound
    /\ error = "none"
    /\ printed = FALSE
    /\ events = <<>>
    /\ prev = NoCall

(* a new frame: parameters bound, every other local unbound *)
Enter(ps, rs, name, avg, b) ==
    /\ pc' = "config"
    /\ predictions' = ps
    /\ references' = rs
    /\ model_name' = name
    /\ return_average' = avg
    /\ batch_size' = b
    /\ model_config' = Unbound
    /\ is_cross_encoder' = "unbound"
    /\ device' = "unbound"
    /\ model' = Unbound
    /\ pairs' = <<>>
    /\ scores' = <<>>
    /\ result' = Unbound
    /\ error' = "none"
    /\ printed' = FALSE
    /\ events' = <<>>

(* _compute is called *)
Call ==
    /\ pc = "idle"
    /\ \E ps \in TextLists, rs \in TextLists, name \in ModelNames,
          avg \in BOOLEAN, b \in BatchSizes : Enter(ps, rs, name, avg, b)
    /\ prev' = NoCall

(* the caller repeats its last call, changing at most batch_size *)
CallAgain ==
    /\ pc = "idle"
    /\ prev.kind = "call"
    /\ \E b \in BatchSizes :
          Enter(prev.predictions, prev.references, prev.model_name,
                prev.return_average, b)
    /\ UNCHANGED prev

(* line 85, the loader answers *)
LoadConfig ==
    /\ pc = "config"
    /\ \E architectures \in ArchitectureValues :
          model_config' = Config(architectures)
    /\ events' = Append(events, "AutoConfig.from_pretrained")
    /\ pc' = "validate"
    /\ UNCHANGED <<predictions, references, model_name, return_average, batch_size,
                   is_cross_encoder, device, model, pairs, scores, result, error,
                   printed, prev>>

(* line 85, the loader raises: nothing in _compute catches it *)
LoadConfigFails ==
    /\ pc = "config"
    /\ events' = Append(events, "AutoConfig.from_pretrained")
    /\ error' = Propagated("ConfigLoadError")
    /\ pc' = "raised"
    /\ UNCHANGED <<predictions, references, model_name, return_average, batch_size,
                   model_config, is_cross_encoder, device, model, pairs, scores,
                   result, printed, prev>>

(* lines 86-91 *)
Validate ==
    /\ pc = "validate"
    /\ events' = Append(events, "validate")
    /\ is_cross_encoder' = CheckArchitecture(model_config.architectures)
    /\ CASE is_cross_encoder' = "unbound" ->
              /\ error' = "UnboundLocalError"
              /\ pc' = "raised"
              /\ UNCHANGED <<printed, result>>
         [] is_cross_encoder' = "False" ->
              /\ printed' = TRUE
              /\ result' = NoneValue
              /\ pc' = "done"
              /\ UNCHANGED error
         [] OTHER ->
              /\ pc' = "device"
              /\ UNCHANGED <<printed, result, error>>
    /\ UNCHANGED <<predictions, references, model_name, return_average, batch_size,
                   model_config, device, model, pairs, scores, prev>>

(* line 93 *)
SelectDevice ==
    /\ pc = "device"
    /\ \E cuda_available \in BOOLEAN :
          /\ device' = SelectedDevice(cuda_available)
          /\ events' = Append(events, CudaProbe(cuda_available))
    /\ pc' = "engine"
    /\ UNCHANGED <<predictions, references, model_name, return_average, batch_size,
                   model_config, is_cross_encoder, model, pairs, scores, result,
                   error, printed, prev>>

(* line 94 *)
Instantiate ==
    /\ pc = "engine"
    /\ model' = CrossEncoder(model_name, device)
    /\ events' = Append(events, "CrossEncoder")
    /\ pc' = "predict"
    /\ UNCHANGED <<predictions, references, model_name, return_average, batch_size,
                   model_config, is_cross_encoder, device, pairs, scores, result,
                   error, printed, prev>>

(* line 94, the constructor raises *)
InstantiateFails ==
    /\ pc = "engine"
    /\ events' = Append(events, "CrossEncoder")
    /\ error' = Propagated("EngineLoadError")
    /\ pc' = "raised"
    /\ UNCHANGED <<predictions, references, model_name, return_average, batch_size,
                   model_config, is_cross_encoder, device, model, pairs, scores,
                   result, printed, prev>>

(* lines 95-106 *)
Score ==
    /\ pc = "predict"
    /\ pairs' = Zip(predictions, references)
    /\ scores' = Predict(model, pairs', batch_size)
    /\ events' = Append(events, "predict")
    /\ result' = ReturnValue(scores', return_average)
    /\ pc' = "done"
    /\ UNCHANGED <<predictions, references, model_name, return_average, batch_size,
                   model_config, is_cross_encoder, device, model, error, printed, prev>>

(* what the caller keeps of a call that returned scores, to compare a      *)
(* repeat of that call with: its arguments, the device and the value       *)
Observed ==
    IF pc = "done" /\ result.kind \in {"list", "tuple"}
    THEN [kind |-> "call", predictions |-> predictions, references |-> references,
          model_name |-> model_name, return_average |-> return_average,
          batch_size |-> batch_size, device |-> device, result |-> result]
    ELSE NoCall

KeptLocal(value, unbound) == value

(* a local of the frame once the call has ended *)
AfterReturn(value, unbound) == unbound

(* the call ends (return or raise): the frame is gone *)
Return ==
    /\ pc \in {"done", "raised"}
    /\ prev' = Observed
    /\ pc' = "idle"
    /\ model_config' = AfterReturn(model_config, Unbound)
    /\ is_cross_encoder' = AfterReturn(is_cross_encoder, "unbound")
    /\ device' = AfterReturn(device, "unbound")
    /\ model' = AfterReturn(model, Unbound)
    /\ pairs' = AfterReturn(pairs, <<>>)
    /\ scores' = AfterReturn(scores, <<>>)
    /\ result' = Unbound
    /\ error' = "none"
    /\ printed' = FALSE
    /\ events' = <<>>
    /\ UNCHANGED <<predictions, references, model_name, return_average, batch_size>>

Next ==
    \/ Call
    \/ CallAgain
    \/ LoadConfig
    \/ LoadConfigFails
    \/ Validate
    \/ SelectDevice
    \/ Instantiate
    \/ InstantiateFails
    \/ Score
    \/ Return

Spec == Init /\ [][Next]_vars

(* ----------------------------- properties ------------------------------ *)
Has(e) == \E i \in 1..Len(events) : events[i] = e

Count(e) == Cardinality({ i \in 1..Len(events) : events[i] = e })

IsPrefix(s, t) == Len(s) <= Len(t) /\ SubSeq(t, 1, Len(s)) = s

LastChunk(name) == name[Len(name)]

(* the configuration was loaded and its architecture metadata is absent *)
ArchitecturesAbsent ==
    /\ model_config.kind = "config"
    /\ \/ model_config.architectures.kind = "None"
       \/ /\ model_config.architectures.kind = "list"
          /\ model_config.architectures.items = <<>>

(* a non-empty architecture list, told apart by its last chunks *)
ArchitecturesWithMatch ==
    /\ model_config.kind = "config"
    /\ model_config.architectures.kind = "list"
    /\ \E i \in 1..Len(model_config.architectures.items) :
          LastChunk(model_config.architectures.items[i]) = "ForSequenceClassification"

ArchitecturesWithoutMatch ==
    /\ model_config.kind = "config"
    /\ model_config.architectures.kind = "list"
    /\ model_config.architectures.items # <<>>
    /\ \A i \in 1..Len(model_config.architectures.items) :
          LastChunk(model_config.architectures.items[i]) # "ForSequenceClassification"

Validated == Has("validate")

ReturnedScores == pc = "done" /\ result.kind \in {"list", "tuple"}

(* C1: with architectures None or [], once validation has run the call has *)
(* ended as a soft exit: diagnostic printed, None returned, no error       *)
(* raised, no engine instantiated and no predict.                          *)
C1_AbsentArchitectureSoftExit ==
    (ArchitecturesAbsent /\ Validated) =>
        /\ pc = "done"
        /\ error = "none"
        /\ printed
        /\ result = NoneValue
        /\ model = Unbound
        /\ ~Has("CrossEncoder")
        /\ ~Has("predict")

(* C2: with a non-empty architecture list none of whose entries ends in    *)
(* ForSequenceClassification, validation prints the diagnostic and returns *)
(* None; the engine is never instantiated and predict never called.        *)
C2_NoMatchPrintsAndReturnsNone ==
    (ArchitecturesWithoutMatch /\ Validated) =>
        /\ pc = "done"
        /\ error = "none"
        /\ printed
        /\ result = NoneValue
        /\ model = Unbound
        /\ events = <<"AutoConfig.from_pretrained", "validate">>

C2_Witness ==
    /\ ArchitecturesWithoutMatch
    /\ pc = "done"
    /\ result = NoneValue
    /\ printed
    /\ \E i \in 1..Len(model_config.architectures.items) :
          model_config.architectures.items[i][1] = "ForSequenceClassification"

(* C3: for equal-length predictions and references of length n, the call   *)
(* returns exactly n scores, score i being the engine's score of           *)
(* [predictions[i], references[i]], and those are the pairs predict got.   *)
C3_OneScorePerPairInOrder ==
    (ReturnedScores /\ Len(predictions) = Len(references)) =>
        /\ Len(result.scores) = Len(predictions)
        /\ Len(pairs) = Len(predictions)
        /\ \A i \in 1..Len(predictions) :
              /\ pairs[i] = <<predictions[i], references[i]>>
              /\ result.scores[i] = ModelScore(model_name, <<predictions[i], references[i]>>)

C3_Witness ==
    /\ ReturnedScores
    /\ Len(predictions) = 2
    /\ Len(references) = 2
    /\ predictions # references
    /\ result.scores[1] # result.scores[2]

RepeatsObserved ==
    /\ prev.kind = "call"
    /\ ReturnedScores
    /\ predictions = prev.predictions
    /\ references = prev.references
    /\ model_name = prev.model_name
    /\ return_average = prev.return_average
    /\ device = prev.device

(* C6: two calls that differ only in batch_size return the same scores     *)
(* and the same average.                                                   *)
C6_BatchSizeDoesNotChangeResult ==
    (RepeatsObserved /\ batch_size # prev.batch_size) => result = prev.result

C6_Witness ==
    /\ RepeatsObserved
    /\ batch_size # prev.batch_size
    /\ return_average
    /\ Len(result.scores) = MaxLen

(* C7: a failure of the configuration loader or of the engine constructor  *)
(* leaves _compute as that very error: no diagnostic, no value returned,   *)
(* and none of the later steps run.                                        *)
C7_LoadFailuresPropagate ==
    /\ (pc = "raised" /\ model_config = Unbound) =>
          /\ error = "ConfigLoadError"
          /\ ~printed
          /\ result = Unbound
          /\ model = Unbound
          /\ scores = <<>>
          /\ events = <<"AutoConfig.from_pretrained">>
    /\ (pc = "raised" /\ Has("CrossEncoder")) =>
          /\ error = "EngineLoadError"
          /\ ~printed
          /\ result = Unbound
          /\ model = Unbound
          /\ scores = <<>>
          /\ ~Has("predict")

C7_Witness ==
    /\ pc = "raised"
    /\ error = "EngineLoadError"
    /\ Has("CrossEncoder")
    /\ device = "cuda"

(* C8: nothing is carried from one call to the next: between calls no      *)
(* local of _compute is bound, within a call the configuration and the     *)
(* engine are the ones this call loaded for its own model_name, each       *)
(* loaded once, and a repeat of a call with the same arguments returns     *)
(* the same value.                                                         *)
C8_NoStateAcrossCalls ==
    /\ pc = "idle" =>
          /\ model_config = Unbound
          /\ is_cross_encoder = "unbound"
          /\ device = "unbound"
          /\ model = Unbound
          /\ pairs = <<>>
          /\ scores = <<>>
    /\ model_config # Unbound => Count("AutoConfig.from_pretrained") = 1
    /\ model # Unbound =>
          /\ Count("CrossEncoder") = 1
          /\ model.name = model_name
          /\ model.device = device
    /\ Has("predict") =>
          /\ Count("AutoConfig.from_pretrained") = 1
          /\ Count("CrossEncoder") = 1
    /\ (RepeatsObserved /\ batch_size = prev.batch_size) => result = prev.result

C8_Witness ==
    /\ RepeatsObserved
    /\ batch_size = prev.batch_size
    /\ model_name = "bert-base-uncased"
    /\ Len(result.scores) > 0

(* the order of the steps of a call that passes validation *)
StepOrder(cuda_available) ==
    <<"AutoConfig.from_pretrained", "validate", CudaProbe(cuda_available),
      "CrossEncoder", "predict">>

(* C9: when the architecture list has an entry ending in                   *)
(* ForSequenceClassification, the steps run in the order load              *)
(* configuration, validate, select device, instantiate engine, predict,    *)
(* each once; the device is cuda exactly when cuda is available and the    *)
(* engine is bound to this model name and that device.                     *)
C9_StepsInOrder ==
    (ArchitecturesWithMatch /\ Validated) =>
        /\ \E cuda_available \in BOOLEAN :
              /\ IsPrefix(events, StepOrder(cuda_available))
              /\ Len(events) >= 3 =>
                    device = (IF cuda_available THEN "cuda" ELSE "cpu")
        /\ pc # "raised" \/ error = "EngineLoadError"
        /\ pc = "done" => Len(events) = 5 /\ result.kind \in {"list", "tuple"}
        /\ ~printed
        /\ model # Unbound =>
              /\ Len(events) >= 4
              /\ model = [kind |-> "CrossEncoder", name |-> model_name, device |-> device]

C9_Witness ==
    /\ ArchitecturesWithMatch
    /\ pc = "done"
    /\ events = StepOrder(TRUE)
    /\ device = "cuda"
    /\ Len(model_config.architectures.items) = 2
    /\ LastChunk(model_config.architectures.items[2]) # "ForSequenceClassification"

(* C10: with predictions and references of different lengths the call      *)
(* raises nothing and scores exactly the first min(len, len) pairs,        *)
(* pair i being [predictions[i], references[i]]; nothing else reaches the  *)
(* engine.                                                                 *)
C10_DifferentLengthsTruncate ==
    (pc \in {"done", "raised"} /\ Has("predict")
        /\ Len(predictions) # Len(references)) =>
        /\ pc = "done"
        /\ error = "none"
        /\ Len(pairs) = Min(Len(predictions), Len(references))
        /\ Len(result.scores) = Len(pairs)
        /\ \A i \in 1..Len(pairs) :
              /\ pairs[i] = <<predictions[i], references[i]>>
              /\ result.scores[i] = ModelScore(model_name, pairs[i])

C10_Witness ==
    /\ ReturnedScores
    /\ Len(predictions) = 2
    /\ Len(references) = 1
    /\ Len(result.scores) = 1

====
